---- MODULE Spec2Model ----
(***************************************************************************)
(* gadalang: node-name resolution (gadalang/main.py sanitize_node_name),   *)
(* the plugin registry (gadalang/nodes/__init__.py load_plugins, load) and *)
(* the node-execution protocol (gadalang/main.py run).                     *)
(*                                                                         *)
(* Strings are sequences of one-character strings, so that slicing,        *)
(* searching and concatenation are computed as Python computes them.       *)
(***************************************************************************)
EXTENDS Integers, Sequences, FiniteSets, TLC

VARIABLES
    modules,        \* sub-packages pkgutil.iter_modules finds under gadalang.nodes
    entry_points,   \* entry points registered for the group "gadalang.nodes"
    loads,          \* number of executions of nodes.load() so far
    lookups,        \* number of resolutions of an unqualified name so far
    ncalls,         \* number of calls made by the caller so far
    resolved,       \* outcome of the last sanitize_node_name / load call
    pc,             \* position of run._run
    arg,            \* the data argument the caller passed to run
    node,           \* the node argument of run
    data,           \* run's local data after the default of line 65
    target,         \* the value sanitize_node_name(node) handed to the launcher
    chan,           \* state of the three PipeStream context managers
    pipe,           \* bytes buffered in each pipe, not yet read
    eof,            \* whether the write end of each pipe has been closed
    child,          \* the launched child process
    result,         \* what run returned or raised
    events,         \* protocol events of the current run, in order
    spawns,         \* launches the current run tried, and children it started
    again,          \* outcome of resolving the last resolved name once more
    loaded,         \* outcomes of the last two nodes.load() calls of the caller
    discovered,     \* outcome of the last nodes.load_plugins() call of the caller
    normalized      \* outcome of the last normalize(name)

vars == <<modules, entry_points, loads, lookups, ncalls, resolved, pc, arg, node,
          data, target, chan, pipe, eof, child, result, events, spawns, again, loaded,
          discovered, normalized>>

\* what the caller keeps of its calls into gadalang.nodes
callvars == <<again, loaded, discovered, normalized>>
regvars == <<modules, entry_points, callvars>>
runvars == <<pc, arg, node, data, target, chan, pipe, eof, child, result, events,
             spawns>>

----------------------------------------------------------------------------
(* Bounds of the model *)

\* longest node name the caller passes
MaxNameLen == 2
\* most plugins installed at once
MaxPlugins == 2
\* most calls the caller makes in one process
MaxCalls == 2
\* bytes a pipe buffers before a writer blocks
PipeCap == 6

----------------------------------------------------------------------------
(* Strings *)

\* all sequences over S of length at most n
RECURSIVE SeqsUpTo(_, _)
SeqsUpTo(S, n) ==
    IF n = 0 THEN {<<>>}
    ELSE LET shorter == SeqsUpTo(S, n - 1)
         IN  shorter \cup {Append(s, c) : s \in {t \in shorter : Len(t) = n - 1}, c \in S}

\* Python: c in s
Contains(s, c) == \E i \in 1..Len(s) : s[i] = c

\* Python: s.rfind(c), the highest 0-based index of c in s, or -1
rfind(s, c) ==
    IF Contains(s, c)
    THEN (CHOOSE i \in 1..Len(s) : s[i] = c /\ \A j \in (i + 1)..Len(s) : s[j] # c) - 1
    ELSE -1

\* Python: s[i:], i a 0-based index with 0 <= i <= len(s)
SliceFrom(s, i) == SubSeq(s, i + 1, Len(s))

\* the literal "gadalang_" of main.py line 46
GADALANG_ == <<"g", "a", "d", "a", "l", "a", "n", "g", "_">>
\* ns_pkg.__name__ + "." for the package gadalang.nodes
NS_PREFIX == <<"g", "a", "d", "a", "l", "a", "n", "g", ".", "n", "o", "d", "e", "s", ".">>
\* the literal "gadaland.nodes." that line 31 formats entry-point names with
EP_PREFIX == <<"g", "a", "d", "a", "l", "a", "n", "d", ".", "n", "o", "d", "e", "s", ".">>

----------------------------------------------------------------------------
(* Outcomes of a Python call: a returned value or a raised exception *)

Returned(v) == [ok |-> TRUE, val |-> v, exc |-> ""]
Raised(e) == [ok |-> FALSE, val |-> <<>>, exc |-> e]

----------------------------------------------------------------------------
(* nodes/__init__.py: plugin discovery and the registry *)

\* A plugin as installed: its module or entry-point name, whether importing it
\* succeeds, the names its nodes() returns and whether nodes() succeeds.
Plugin(nm, st, ns) == [name |-> nm, status |-> st, nodes |-> ns]

\* Python: reversed(s)
reversed(s) == [i \in 1..Len(s) |-> s[Len(s) + 1 - i]]

\* iter_namespace yielding the entry points before the local sub-packages
iter_namespace_entry_first(mods, eps) ==
    [i \in 1..Len(eps) |-> [desc |-> EP_PREFIX \o eps[i].name, plugin |-> eps[i]]]
    \o [i \in 1..Len(mods) |-> [desc |-> NS_PREFIX \o mods[i].name, plugin |-> mods[i]]]

\* iter_namespace whose order turns around on every other registry build
iter_namespace_alternating(mods, eps) ==
    LET found ==
            [i \in 1..Len(mods) |-> [desc |-> NS_PREFIX \o mods[i].name, plugin |-> mods[i]]]
            \o [i \in 1..Len(eps) |-> [desc |-> EP_PREFIX \o eps[i].name, plugin |-> eps[i]]]
    IN  IF loads % 2 = 0 THEN found ELSE reversed(found)

\* iter_namespace: local sub-packages first, entry points after them; each
\* yields (descriptor name, loader)
iter_namespace(mods, eps) ==
    [i \in 1..Len(mods) |-> [desc |-> NS_PREFIX \o mods[i].name, plugin |-> mods[i]]]
    \o [i \in 1..Len(eps) |-> [desc |-> EP_PREFIX \o eps[i].name, plugin |-> eps[i]]]

\* normalize with find in place of rfind: the substring after the first "."
normalize_first_dot(name) ==
    IF Contains(name, ".")
    THEN SliceFrom(name, CHOOSE i \in 1..Len(name) :
                             name[i] = "." /\ \A j \in 1..(i - 1) : name[j] # ".")
    ELSE name

\* normalize: the substring after the last "."
normalize(name) == SliceFrom(name, rfind(name, ".") + 1)

\* load_plugins with a loader that skips the plugins it cannot import
load_plugins_skipping(mods, eps) ==
    LET found == SelectSeq(iter_namespace(mods, eps),
                           LAMBDA f : f.plugin.status # "import_error")
    IN  Returned([i \in 1..Len(found) |->
                    [group |-> normalize(found[i].desc), plugin |-> found[i].plugin]])

\* load_plugins: the list of (normalize(name), load()); load() of a plugin
\* that cannot be imported raises, and the comprehension raises with it
load_plugins(mods, eps) ==
    LET found == iter_namespace(mods, eps)
    IN  IF \E i \in 1..Len(found) : found[i].plugin.status = "import_error"
        THEN Raised("ImportError")
        ELSE Returned([i \in 1..Len(found) |->
                         [group |-> normalize(found[i].desc), plugin |-> found[i].plugin]])

\* the inner loop of load: nodes[_] = name for every _ of plugin.nodes()
RECURSIVE register(_, _, _)
register(nodes, names, owner) ==
    IF names = <<>> THEN nodes
    ELSE register([n \in DOMAIN nodes \cup {Head(names)} |->
                      IF n = Head(names) THEN owner ELSE nodes[n]],
                  Tail(names), owner)

\* the outer loop of load over the plugins, in order
RECURSIVE collect(_, _)
collect(nodes, plugins) ==
    IF plugins = <<>> THEN Returned(nodes)
    ELSE IF Head(plugins).plugin.status = "nodes_error" THEN Raised("AttributeError")
    ELSE collect(register(nodes, Head(plugins).plugin.nodes, Head(plugins).group),
                 Tail(plugins))

\* load: the mapping node name -> owning group, or the exception raised
load(mods, eps) ==
    LET plugins == load_plugins(mods, eps)
    IN  IF plugins.ok THEN collect(<<>>, plugins.val) ELSE plugins

----------------------------------------------------------------------------
(* main.py: sanitize_node_name *)

\* whether sanitize_node_name(node) calls nodes.load() (line 37 did not return)
looks_up(n) == ~Contains(n, ".")

\* sanitize_node_name without the test of line 37
sanitize_without_dot_test(n, mods, eps) ==
    LET known == load(mods, eps)
    IN  IF ~known.ok THEN known
        ELSE IF n \notin DOMAIN known.val THEN Returned(n)
        ELSE Returned(GADALANG_ \o known.val[n] \o <<".">> \o n)

\* sanitize_node_name with owner and node exchanged in line 46
sanitize_swapping_owner(n, mods, eps) ==
    IF Contains(n, ".") THEN Returned(n)
    ELSE LET known == load(mods, eps)
         IN  IF ~known.ok THEN known
             ELSE IF n \notin DOMAIN known.val THEN Returned(n)
             ELSE Returned(GADALANG_ \o n \o <<".">> \o known.val[n])

\* sanitize_node_name with known[node] in place of known.get(node, None)
sanitize_rejecting_unknown(n, mods, eps) ==
    IF Contains(n, ".") THEN Returned(n)
    ELSE LET known == load(mods, eps)
         IN  IF ~known.ok THEN known
             ELSE IF n \notin DOMAIN known.val THEN Raised("KeyError")
             ELSE Returned(GADALANG_ \o known.val[n] \o <<".">> \o n)

\* sanitize_node_name with line 44 returning the name under the prefix
sanitize_prefixing_unknown(n, mods, eps) ==
    IF Contains(n, ".") THEN Returned(n)
    ELSE LET known == load(mods, eps)
         IN  IF ~known.ok THEN known
             ELSE IF n \notin DOMAIN known.val THEN Returned(GADALANG_ \o n)
             ELSE Returned(GADALANG_ \o known.val[n] \o <<".">> \o n)

\* sanitize_node_name: the string returned, or the exception raised
sanitize_node_name(n, mods, eps) ==
    IF Contains(n, ".") THEN Returned(n)
    ELSE LET known == load(mods, eps)
         IN  IF ~known.ok THEN known
             ELSE IF n \notin DOMAIN known.val THEN Returned(n)
             ELSE Returned(GADALANG_ \o known.val[n] \o <<".">> \o n)

----------------------------------------------------------------------------
(* Python values and their JSON text (json.dumps / json.loads, which          *)
(* pygada_runtime.write_json and read_json apply)                             *)

\* A Python value: t is its type, s the text of a scalar, kv the (key, value)
\* pairs of a dict in insertion order.
PyVal(t, s, kv) == [t |-> t, s |-> s, kv |-> kv]
None == PyVal("None", "", <<>>)
PyInt(s) == PyVal("int", s, <<>>)
PyStr(s) == PyVal("str", s, <<>>)
PyDict(kv) == PyVal("dict", "", kv)
\* a value json.dumps cannot serialize (a set, an object)
PyObject == PyVal("object", "", <<>>)

\* One unit of JSON text on a pipe: a punctuation mark, a literal or a string.
Tok(k, s) == [k |-> k, s |-> s]
LBRACE == Tok("{", "")
RBRACE == Tok("}", "")
COLON == Tok(":", "")
COMMA == Tok(",", "")

\* Python: d[k] = v on the pairs of a dict (a present key keeps its position)
dict_set(kv, k, v) ==
    IF \E i \in 1..Len(kv) : kv[i][1] = k
    THEN [i \in 1..Len(kv) |-> IF kv[i][1] = k THEN <<k, v>> ELSE kv[i]]
    ELSE Append(kv, <<k, v>>)

\* Python: a == b; dicts compare by content, not by insertion order
RECURSIVE py_eq(_, _)
py_eq(a, b) ==
    IF a.t = "dict" /\ b.t = "dict"
    THEN /\ {p[1] : p \in {a.kv[i] : i \in 1..Len(a.kv)}}
            = {p[1] : p \in {b.kv[i] : i \in 1..Len(b.kv)}}
         /\ \A i \in 1..Len(a.kv) : \A j \in 1..Len(b.kv) :
                a.kv[i][1] = b.kv[j][1] => py_eq(a.kv[i][2], b.kv[j][2])
    ELSE a.t = b.t /\ a.s = b.s

\* json.dumps of a dict key: str keys as they are, int and None keys as strings
dumps_key(k) ==
    IF k.t = "str" THEN Returned(<<Tok("str", k.s)>>)
    ELSE IF k.t = "int" THEN Returned(<<Tok("str", k.s)>>)
    ELSE IF k.t = "None" THEN Returned(<<Tok("str", "null")>>)
    ELSE Raised("TypeError")

\* json.dumps: the text of a value, or TypeError
RECURSIVE json_dumps(_)
RECURSIVE dumps_items(_)
dumps_items(kv) ==
    IF kv = <<>> THEN Returned(<<>>)
    ELSE LET k == dumps_key(Head(kv)[1])
             v == json_dumps(Head(kv)[2])
             rest == dumps_items(Tail(kv))
         IN  IF ~k.ok THEN k
             ELSE IF ~v.ok THEN v
             ELSE IF ~rest.ok THEN rest
             ELSE Returned(k.val \o <<COLON>> \o v.val
                           \o (IF Tail(kv) = <<>> THEN <<>> ELSE <<COMMA>>) \o rest.val)

json_dumps(v) ==
    IF v.t = "None" THEN Returned(<<Tok("null", "")>>)
    ELSE IF v.t = "int" THEN Returned(<<Tok("int", v.s)>>)
    ELSE IF v.t = "str" THEN Returned(<<Tok("str", v.s)>>)
    ELSE IF v.t = "dict"
    THEN LET items == dumps_items(v.kv)
         IN  IF items.ok THEN Returned(<<LBRACE>> \o items.val \o <<RBRACE>>) ELSE items
    ELSE Raised("TypeError")

\* A parse: the value read and the text left, or a failure.
Parsed(v, rest) == [ok |-> TRUE, val |-> v, rest |-> rest]
Unparsed == [ok |-> FALSE, val |-> None, rest |-> <<>>]

\* json's recursive descent over the text: one value from the front of text
RECURSIVE parse_value(_)
RECURSIVE parse_members(_, _)
parse_members(kv, text) ==
    IF Len(text) < 2 \/ text[1].k # "str" \/ text[2] # COLON THEN Unparsed
    ELSE LET v == parse_value(SubSeq(text, 3, Len(text)))
         IN  IF ~v.ok \/ v.rest = <<>> THEN Unparsed
             ELSE IF Head(v.rest) = RBRACE
             THEN Parsed(PyDict(dict_set(kv, PyStr(text[1].s), v.val)), Tail(v.rest))
             ELSE IF Head(v.rest) = COMMA
             THEN parse_members(dict_set(kv, PyStr(text[1].s), v.val), Tail(v.rest))
             ELSE Unparsed

parse_value(text) ==
    IF text = <<>> THEN Unparsed
    ELSE IF Head(text).k = "null" THEN Parsed(None, Tail(text))
    ELSE IF Head(text).k = "int" THEN Parsed(PyInt(Head(text).s), Tail(text))
    ELSE IF Head(text).k = "str" THEN Parsed(PyStr(Head(text).s), Tail(text))
    ELSE IF Head(text) = LBRACE
    THEN IF Len(text) >= 2 /\ text[2] = RBRACE
         THEN Parsed(PyDict(<<>>), SubSeq(text, 3, Len(text)))
         ELSE parse_members(<<>>, Tail(text))
    ELSE Unparsed

\* json.loads: the value of the whole text, or JSONDecodeError (also when text
\* is empty or data follows the value)
json_loads(text) ==
    LET p == parse_value(text)
    IN  IF p.ok /\ p.rest = <<>> THEN Returned(p.val) ELSE Raised("JSONDecodeError")

----------------------------------------------------------------------------
(* The inputs: names, installed plugins, data values, child programs *)

NameChars == {"j", "."}
\* the node names a caller passes
Names == SeqsUpTo(NameChars, MaxNameLen)

\* a sub-package "l" whose nodes() is ["j"]
plugin_l == Plugin(<<"l">>, "ok", << <<"j">> >>)
\* a sub-package "m" whose nodes() is ["j", "jj"]
plugin_m == Plugin(<<"m">>, "ok", << <<"j">>, <<"j", "j">> >>)
\* an entry point named "p.l" whose nodes() is ["j."]
plugin_pl == Plugin(<<"p", ".", "l">>, "ok", << <<"j", ".">> >>)
\* a plugin whose import raises
plugin_b == Plugin(<<"b">>, "import_error", <<>>)
\* a plugin that imports and has no usable nodes()
plugin_n == Plugin(<<"n">>, "nodes_error", <<>>)

\* module names are identifiers; entry-point names may hold dots
ModuleChoices == {plugin_l, plugin_m, plugin_b, plugin_n}
EntryChoices == {plugin_l, plugin_m, plugin_pl, plugin_b, plugin_n}

\* every installation of at most MaxPlugins plugins
Installs ==
    {inst \in SeqsUpTo(ModuleChoices, MaxPlugins) \X SeqsUpTo(EntryChoices, MaxPlugins) :
        Len(inst[1]) + Len(inst[2]) <= MaxPlugins}

\* the installations run is exercised under
RunInstalls == {<< <<>>, <<>> >>, << <<plugin_l>>, <<>> >>, << <<>>, <<plugin_b>> >>}
\* the nodes run is asked for: a builtin, an unknown name, a qualified name
RunNodes == {<<"j">>, <<"j", "j">>, <<"j", ".">>}

PyA == PyStr("a")
Py1 == PyInt("1")
\* a value that is falsy and is not None
Py0 == PyInt("0")
\* the data arguments of run
DataValues ==
    {None, PyDict(<<>>), PyDict(<< <<PyA, Py1>> >>), PyDict(<< <<Py1, Py1>> >>),
     PyDict(<< <<PyA, PyDict(<< <<PyA, Py1>> >>)>> >>), Py1, Py0, PyObject}

\* what a child may write to its stdout
HELLO == <<LBRACE, Tok("str", "data"), COLON, Tok("str", "hello"), RBRACE>>
BIG == <<LBRACE, Tok("str", "a"), COLON, LBRACE, Tok("str", "a"), COLON, LBRACE, RBRACE,
         RBRACE, RBRACE>>
OutTexts == {<<>>, <<LBRACE, RBRACE>>, HELLO, <<LBRACE>>, <<Tok("int", "1"), RBRACE>>, BIG}
\* what a child may write to its stderr
BOOM == <<Tok("raw", "b"), Tok("raw", "o"), Tok("raw", "o"), Tok("raw", "m")>>
ErrTexts == {<<>>, BOOM}

\* A child program: echo children decode stdin and write it back; the others
\* write out to stdout and err to stderr, in any order, and exit with code.
Programs ==
    [echo : {FALSE}, out : OutTexts, err : ErrTexts, code : {0, 1}]
    \cup [echo : {TRUE}, out : {<<>>}, err : {<<>>}, code : {0}]

----------------------------------------------------------------------------
(* The state after import *)

Chans == {"stdin", "stdout", "stderr"}

NoChild ==
    [st |-> "none", echo |-> FALSE, got |-> <<>>, eofseen |-> FALSE, out |-> <<>>,
     nout |-> 0, err |-> <<>>, nerr |-> 0, code |-> 0, returncode |-> -1]

NoResult == [kind |-> "none", val |-> None, exc |-> "", msg |-> <<>>]

NotResolved == [done |-> FALSE, name |-> <<>>, out |-> Returned(<<>>)]

NoSpawns == [tried |-> 0, started |-> 0]

\* no call into gadalang.nodes made yet
NotCalled ==
    /\ again = [done |-> FALSE, of |-> <<>>, name |-> <<>>, out |-> Returned(<<>>)]
    /\ loaded = [n |-> 0, last |-> Returned(<<>>), prev |-> Returned(<<>>)]
    /\ discovered = [done |-> FALSE, out |-> Returned(<<>>)]
    /\ normalized = [done |-> FALSE, name |-> <<>>, out |-> <<>>, twice |-> <<>>]

RunIdle ==
    /\ pc = "idle"
    /\ arg = None
    /\ node = <<>>
    /\ data = None
    /\ target = <<>>
    /\ chan = [c \in Chans |-> "unopened"]
    /\ pipe = [c \in Chans |-> <<>>]
    /\ eof = [c \in Chans |-> FALSE]
    /\ child = NoChild
    /\ result = NoResult
    /\ events = <<>>
    /\ spawns = NoSpawns

Init ==
    /\ \E inst \in RunInstalls : modules = inst[1] /\ entry_points = inst[2]
    /\ loads = 0
    /\ lookups = 0
    /\ ncalls = 0
    /\ resolved = NotResolved
    /\ NotCalled
    /\ RunIdle

InitResolve ==
    /\ \E inst \in Installs : modules = inst[1] /\ entry_points = inst[2]
    /\ loads = 0
    /\ lookups = 0
    /\ ncalls = 0
    /\ resolved = NotResolved
    /\ NotCalled
    /\ RunIdle

----------------------------------------------------------------------------
(* main.py: a caller resolving a name *)

\* the number of nodes.load() executions were the registry built once and kept
loads_after_cached(n, k) == IF looks_up(n) /\ k = 0 THEN 1 ELSE k

\* the number of nodes.load() executions were line 41 placed before line 37
loads_after_eager(n, k) == k + 1

\* the number of nodes.load() executions after sanitize_node_name(n): line 41
\* runs on every call that passes line 37
loads_after(n, k) == IF looks_up(n) THEN k + 1 ELSE k

\* the caller calls sanitize_node_name(n)
Sanitize(n) ==
    /\ pc = "idle"
    /\ ncalls < MaxCalls
    /\ ncalls' = ncalls + 1
    /\ resolved' = [done |-> TRUE, name |-> n,
                    out |-> sanitize_node_name(n, modules, entry_points)]
    /\ loads' = loads_after(n, loads)
    /\ lookups' = IF looks_up(n) THEN lookups + 1 ELSE lookups
    /\ UNCHANGED <<regvars, spawns, runvars>>

\* the caller passes the name it got back to sanitize_node_name again
SanitizeAgain ==
    /\ pc = "idle"
    /\ ncalls < MaxCalls
    /\ resolved.done
    /\ resolved.out.ok
    /\ ncalls' = ncalls + 1
    /\ resolved' = [done |-> TRUE, name |-> resolved.out.val,
                    out |-> sanitize_node_name(resolved.out.val, modules, entry_points)]
    /\ again' = [done |-> TRUE, of |-> resolved.name, name |-> resolved.out.val,
                 out |-> sanitize_node_name(resolved.out.val, modules, entry_points)]
    /\ loads' = loads_after(resolved.out.val, loads)
    /\ lookups' = IF looks_up(resolved.out.val) THEN lookups + 1 ELSE lookups
    /\ UNCHANGED <<modules, entry_points, loaded, discovered, normalized, runvars>>

NextResolve ==
    \/ \E n \in Names : Sanitize(n)
    \/ SanitizeAgain

SpecResolve == InitResolve /\ [][NextResolve]_vars

----------------------------------------------------------------------------
(* nodes/__init__.py: a caller building the registry *)

\* the names normalize is applied to: bare names and the two descriptor forms
DescriptorNames ==
    Names \cup {NS_PREFIX \o n : n \in Names} \cup {EP_PREFIX \o n : n \in Names}

\* the caller calls nodes.load()
LoadCall ==
    /\ pc = "idle"
    /\ ncalls < MaxCalls
    /\ ncalls' = ncalls + 1
    /\ loaded' = [n |-> loaded.n + 1, last |-> load(modules, entry_points),
                  prev |-> loaded.last]
    /\ loads' = loads + 1
    /\ UNCHANGED <<modules, entry_points, again, discovered, normalized, lookups,
                   resolved, runvars>>

\* the caller calls nodes.load_plugins()
LoadPluginsCall ==
    /\ pc = "idle"
    /\ ncalls < MaxCalls
    /\ ncalls' = ncalls + 1
    /\ discovered' = [done |-> TRUE, out |-> load_plugins(modules, entry_points)]
    /\ UNCHANGED <<modules, entry_points, again, loaded, normalized, loads, lookups,
                   resolved, runvars>>

\* normalize(name) and normalize of its result, once per behaviour
Normalize(name) ==
    /\ pc = "idle"
    /\ ~normalized.done
    /\ normalized' = [done |-> TRUE, name |-> name, out |-> normalize(name),
                      twice |-> normalize(normalize(name))]
    /\ UNCHANGED <<modules, entry_points, again, loaded, discovered, loads, lookups,
                   ncalls, resolved, runvars>>

NextLoad ==
    \/ LoadCall
    \/ LoadPluginsCall
    \/ \E name \in DescriptorNames : Normalize(name)

SpecLoad == InitResolve /\ [][NextLoad]_vars

----------------------------------------------------------------------------
(* main.py: run *)

\* streams opened without with blocks: nothing releases them
with_exit_leaking(ch) == ch

\* leaving the with blocks of lines 68-70: every stream entered is released
with_exit(ch) == [c \in Chans |-> IF ch[c] = "open" THEN "released" ELSE ch[c]]

\* run raises: the exception unwinds the with blocks and leaves asyncio.run
Raise(exc, msg) ==
    /\ result' = [kind |-> "error", val |-> None, exc |-> exc, msg |-> msg]
    /\ chan' = with_exit(chan)
    /\ pc' = "done"

\* run returns: line 89 leaves the with blocks, line 91 hands the value back
Return(v) ==
    /\ result' = [kind |-> "value", val |-> v, exc |-> "", msg |-> <<>>]
    /\ chan' = with_exit(chan)
    /\ pc' = "done"

\* line 65 written as data = data or {}
default_data_falsy(d) ==
    IF d = None \/ d = PyInt("0") \/ d = PyStr("") \/ d = PyDict(<<>>)
    THEN PyDict(<<>>) ELSE d

\* line 65: data = data if data is not None else {}
default_data(d) == IF d = None THEN PyDict(<<>>) ELSE d

\* the caller calls run(n, d); asyncio.run starts _run
Run(n, d) ==
    /\ pc = "idle"
    /\ ncalls < MaxCalls
    /\ ncalls' = ncalls + 1
    /\ arg' = d
    /\ node' = n
    /\ data' = default_data(d)
    /\ pc' = "open_stdin"
    /\ UNCHANGED <<regvars, spawns, loads, lookups, resolved, target, chan, pipe, eof, child,
                   result, events>>

\* lines 68-70: with PipeStream() as c
Open(c, at, next) ==
    /\ pc = at
    /\ chan' = [chan EXCEPT ![c] = "open"]
    /\ events' = Append(events, <<"open", c>>)
    /\ pc' = next
    /\ UNCHANGED <<regvars, spawns, loads, lookups, ncalls, resolved, arg, node, data, target,
                   pipe, eof, child, result>>

OpenStdin == Open("stdin", "open_stdin", "open_stdout")
OpenStdout == Open("stdout", "open_stdout", "open_stderr")
OpenStderr == Open("stderr", "open_stderr", "write")

\* lines 68-70: PipeStream() cannot create its pipe (no descriptors left)
OpenFails ==
    /\ pc \in {"open_stdin", "open_stdout", "open_stderr"}
    /\ Raise("OSError", <<>>)
    /\ UNCHANGED <<regvars, spawns, loads, lookups, ncalls, resolved, arg, node, data, target,
                   pipe, eof, child, events>>

\* line 71: write_json(stdin, data), the text fitting the pipe
WriteJson ==
    /\ pc = "write"
    /\ json_dumps(data).ok
    /\ Len(json_dumps(data).val) <= PipeCap
    /\ pipe' = [pipe EXCEPT !.stdin = json_dumps(data).val]
    /\ events' = Append(events, <<"write", "stdin">>)
    /\ pc' = "eof"
    /\ UNCHANGED <<regvars, spawns, loads, lookups, ncalls, resolved, arg, node, data, target,
                   chan, eof, child, result>>

\* line 71: the text is longer than the pipe holds and nothing reads the pipe
\* yet: the write fills the pipe and blocks
WriteJsonBlocks ==
    /\ pc = "write"
    /\ json_dumps(data).ok
    /\ Len(json_dumps(data).val) > PipeCap
    /\ pipe' = [pipe EXCEPT !.stdin = SubSeq(json_dumps(data).val, 1, PipeCap)]
    /\ pc' = "write_blocked"
    /\ UNCHANGED <<regvars, spawns, loads, lookups, ncalls, resolved, arg, node, data, target,
                   chan, eof, child, result, events>>

\* line 71: data is not serializable
WriteJsonFails ==
    /\ pc = "write"
    /\ ~json_dumps(data).ok
    /\ Raise(json_dumps(data).exc, <<>>)
    /\ UNCHANGED <<regvars, spawns, loads, lookups, ncalls, resolved, arg, node, data, target,
                   pipe, eof, child, events>>

\* line 72: stdin.eof()
StdinEof ==
    /\ pc = "eof"
    /\ eof' = [eof EXCEPT !.stdin = TRUE]
    /\ events' = Append(events, <<"eof", "stdin">>)
    /\ pc' = "resolve"
    /\ UNCHANGED <<regvars, spawns, loads, lookups, ncalls, resolved, arg, node, data, target,
                   chan, pipe, child, result>>

\* line 75: sanitize_node_name(node), the argument of the launch
Resolve ==
    /\ pc = "resolve"
    /\ loads' = loads_after(node, loads)
    /\ lookups' = IF looks_up(node) THEN lookups + 1 ELSE lookups
    /\ LET name == sanitize_node_name(node, modules, entry_points)
       IN  IF name.ok
           THEN /\ target' = name.val
                /\ pc' = "launch"
                /\ UNCHANGED <<chan, result>>
           ELSE /\ Raise(name.exc, <<>>)
                /\ UNCHANGED target
    /\ UNCHANGED <<regvars, spawns, ncalls, resolved, arg, node, data, pipe, eof, child, events>>

\* the launch moved ahead of stdin.eof()
Launch_before_eof(prog) ==
    /\ pc = "eof"
    /\ child' = [NoChild EXCEPT !.st = "running", !.echo = prog.echo, !.out = prog.out,
                                !.err = prog.err, !.code = prog.code]
    /\ events' = Append(events, <<"launch", "child">>)
    /\ spawns' = [tried |-> spawns.tried + 1, started |-> spawns.started + 1]
    /\ pc' = "wait"
    /\ UNCHANGED <<regvars, loads, lookups, ncalls, resolved, arg, node, data, target,
                   chan, pipe, eof, result>>

\* lines 74-79: pygada_runtime.run starts the child on the three streams
Launch(prog) ==
    /\ pc = "launch"
    /\ child' = [NoChild EXCEPT !.st = "running", !.echo = prog.echo, !.out = prog.out,
                                !.err = prog.err, !.code = prog.code]
    /\ events' = Append(events, <<"launch", "child">>)
    /\ spawns' = [tried |-> spawns.tried + 1, started |-> spawns.started + 1]
    /\ pc' = "wait"
    /\ UNCHANGED <<regvars, loads, lookups, ncalls, resolved, arg, node, data, target,
                   chan, pipe, eof, result>>

\* a failed launch caught and run carrying on to the end-of-output signals
LaunchFails_then_drains ==
    /\ pc = "launch"
    /\ spawns' = [spawns EXCEPT !.tried = @ + 1]
    /\ pc' = "eof_stdout"
    /\ UNCHANGED <<regvars, loads, lookups, ncalls, resolved, arg, node, data, target,
                   chan, pipe, eof, child, result, events>>

\* a failed launch tried once more
LaunchFails_retrying ==
    /\ pc = "launch"
    /\ spawns.tried < 2
    /\ spawns' = [spawns EXCEPT !.tried = @ + 1]
    /\ UNCHANGED <<regvars, loads, lookups, ncalls, resolved, pc, arg, node, data,
                   target, chan, pipe, eof, child, result, events>>

\* lines 74-79: the node cannot be found or spawned
LaunchFails ==
    /\ pc = "launch"
    /\ spawns' = [spawns EXCEPT !.tried = @ + 1]
    /\ Raise("LaunchError", <<>>)
    /\ UNCHANGED <<regvars, loads, lookups, ncalls, resolved, arg, node, data, target,
                   pipe, eof, child, events>>

\* line 81: await proc.wait() returns once the child has exited
Wait ==
    /\ pc = "wait"
    /\ child.st = "exited"
    /\ events' = Append(events, <<"wait", "child">>)
    /\ pc' = "eof_stdout"
    /\ UNCHANGED <<regvars, spawns, loads, lookups, ncalls, resolved, arg, node, data, target,
                   chan, pipe, eof, child, result>>

\* lines 83-84: c.eof()
Eof(c, at, next) ==
    /\ pc = at
    /\ eof' = [eof EXCEPT ![c] = TRUE]
    /\ events' = Append(events, <<"eof", c>>)
    /\ pc' = next
    /\ UNCHANGED <<regvars, spawns, loads, lookups, ncalls, resolved, arg, node, data, target,
                   chan, pipe, child, result>>

StdoutEof == Eof("stdout", "eof_stdout", "eof_stderr")
StderrEof == Eof("stderr", "eof_stderr", "inspect")

\* line 86 without the test of the return code
Inspect_ignoring_code ==
    /\ pc = "inspect"
    /\ events' = Append(events, <<"inspect", "child">>)
    /\ pc' = "read_stdout"
    /\ UNCHANGED <<regvars, spawns, loads, lookups, ncalls, resolved, arg, node, data, target,
                   chan, pipe, eof, child, result>>

\* line 86: if proc.returncode != 0
Inspect ==
    /\ pc = "inspect"
    /\ events' = Append(events, <<"inspect", "child">>)
    /\ pc' = IF child.returncode # 0 THEN "read_stderr" ELSE "read_stdout"
    /\ UNCHANGED <<regvars, spawns, loads, lookups, ncalls, resolved, arg, node, data, target,
                   chan, pipe, eof, child, result>>

\* a read that returns the first byte only
read_first(c) == IF pipe[c] = <<>> THEN <<>> ELSE <<Head(pipe[c])>>

\* stream.read(): everything buffered, up to the end of the stream
read(c) == pipe[c]

\* line 87: raise Exception(await stderr.read())
ReadStderr ==
    /\ pc = "read_stderr"
    /\ eof.stderr
    /\ events' = Append(events, <<"read", "stderr">>)
    /\ pipe' = [pipe EXCEPT !.stderr = <<>>]
    /\ Raise("Exception", read("stderr"))
    /\ UNCHANGED <<regvars, spawns, loads, lookups, ncalls, resolved, arg, node, data, target,
                   eof, child>>

\* line 89 returning an empty dict for output that does not decode
ReadJson_defaulting ==
    /\ pc = "read_stdout"
    /\ eof.stdout
    /\ events' = Append(events, <<"read", "stdout">>)
    /\ pipe' = [pipe EXCEPT !.stdout = <<>>]
    /\ LET output == json_loads(pipe.stdout)
       IN  IF output.ok THEN Return(output.val) ELSE Return(PyDict(<<>>))
    /\ UNCHANGED <<regvars, spawns, loads, lookups, ncalls, resolved, arg, node, data,
                   target, eof, child>>

\* line 89: return await pygada_runtime.read_json(stdout)
ReadJson ==
    /\ pc = "read_stdout"
    /\ eof.stdout
    /\ events' = Append(events, <<"read", "stdout">>)
    /\ pipe' = [pipe EXCEPT !.stdout = <<>>]
    /\ LET output == json_loads(read("stdout"))
       IN  IF output.ok THEN Return(output.val) ELSE Raise(output.exc, <<>>)
    /\ UNCHANGED <<regvars, spawns, loads, lookups, ncalls, resolved, arg, node, data, target,
                   eof, child>>

\* the caller has the outcome of run and may call again
Finish ==
    /\ pc = "done"
    /\ pc' = "idle"
    /\ arg' = None
    /\ node' = <<>>
    /\ data' = None
    /\ target' = <<>>
    /\ chan' = [c \in Chans |-> "unopened"]
    /\ pipe' = [c \in Chans |-> <<>>]
    /\ eof' = [c \in Chans |-> FALSE]
    /\ child' = NoChild
    /\ result' = NoResult
    /\ events' = <<>>
    /\ spawns' = NoSpawns
    /\ UNCHANGED <<regvars, loads, lookups, ncalls, resolved>>

----------------------------------------------------------------------------
(* The child process bound to the three streams (lines 76-78) *)

\* the child reads what its stdin holds
ChildRead ==
    /\ child.st = "running"
    /\ pipe.stdin # <<>>
    /\ child' = [child EXCEPT !.got = @ \o pipe.stdin]
    /\ pipe' = [pipe EXCEPT !.stdin = <<>>]
    /\ UNCHANGED <<regvars, spawns, loads, lookups, ncalls, resolved, pc, arg, node, data,
                   target, chan, eof, result, events>>

\* what an echo child does with the text it read: encode the decoded value to
\* stdout, or report the text it cannot decode and fail
echo_of(c) ==
    LET value == json_loads(c.got)
    IN  IF ~c.echo THEN c
        ELSE IF value.ok THEN [c EXCEPT !.out = json_dumps(value.val).val]
        ELSE [c EXCEPT !.err = BOOM, !.code = 1]

\* the child reads the end of its stdin
ChildReadEof ==
    /\ child.st = "running"
    /\ ~child.eofseen
    /\ pipe.stdin = <<>>
    /\ eof.stdin
    /\ child' = echo_of([child EXCEPT !.eofseen = TRUE])
    /\ UNCHANGED <<regvars, spawns, loads, lookups, ncalls, resolved, pc, arg, node, data,
                   target, chan, pipe, eof, result, events>>

\* the child writes the next byte of its output, when the pipe has room
ChildWriteOut ==
    /\ child.st = "running"
    /\ child.echo => child.eofseen
    /\ child.nout < Len(child.out)
    /\ Len(pipe.stdout) < PipeCap
    /\ pipe' = [pipe EXCEPT !.stdout = Append(@, child.out[child.nout + 1])]
    /\ child' = [child EXCEPT !.nout = @ + 1]
    /\ UNCHANGED <<regvars, spawns, loads, lookups, ncalls, resolved, pc, arg, node, data,
                   target, chan, eof, result, events>>

\* the child writes the next byte of its diagnostics, when the pipe has room
ChildWriteErr ==
    /\ child.st = "running"
    /\ child.echo => child.eofseen
    /\ child.nerr < Len(child.err)
    /\ Len(pipe.stderr) < PipeCap
    /\ pipe' = [pipe EXCEPT !.stderr = Append(@, child.err[child.nerr + 1])]
    /\ child' = [child EXCEPT !.nerr = @ + 1]
    /\ UNCHANGED <<regvars, spawns, loads, lookups, ncalls, resolved, pc, arg, node, data,
                   target, chan, eof, result, events>>

\* the child exits once it has written everything
ChildExit ==
    /\ child.st = "running"
    /\ child.echo => child.eofseen
    /\ child.nout = Len(child.out)
    /\ child.nerr = Len(child.err)
    /\ child' = [child EXCEPT !.st = "exited", !.returncode = child.code]
    /\ UNCHANGED <<regvars, spawns, loads, lookups, ncalls, resolved, pc, arg, node, data,
                   target, chan, pipe, eof, result, events>>

----------------------------------------------------------------------------
(* The specification of run *)

Next ==
    \/ \E n \in RunNodes, d \in DataValues : Run(n, d)
    \/ OpenStdin
    \/ OpenStdout
    \/ OpenStderr
    \/ OpenFails
    \/ WriteJson
    \/ WriteJsonBlocks
    \/ WriteJsonFails
    \/ StdinEof
    \/ Resolve
    \/ \E prog \in Programs : Launch(prog)
    \/ LaunchFails
    \/ Wait
    \/ StdoutEof
    \/ StderrEof
    \/ Inspect
    \/ ReadStderr
    \/ ReadJson
    \/ Finish
    \/ ChildRead
    \/ ChildReadEof
    \/ ChildWriteOut
    \/ ChildWriteErr
    \/ ChildExit

Spec == Init /\ [][Next]_vars

----------------------------------------------------------------------------
(* Properties of run *)

Happened(e) == \E i \in 1..Len(events) : events[i] = e

IsPrefix(s, t) == Len(s) <= Len(t) /\ SubSeq(t, 1, Len(s)) = s

\* C1: a run whose child exited with a non-zero status never reads stdout and
\* never returns a value; it ends raising an Exception whose message is the
\* whole text the child wrote to stderr.
C1_NonZeroExitRaisesStderr ==
    (child.st = "exited" /\ child.returncode # 0) =>
        /\ ~Happened(<<"read", "stdout">>)
        /\ result.kind # "value"
        /\ pc = "done" =>
              /\ result.kind = "error"
              /\ result.exc = "Exception"
              /\ result.msg = child.err

\* a child wrote "boom" to stderr and text to stdout, exited 1, and run raised
C1_Witness ==
    /\ pc = "done"
    /\ child.st = "exited"
    /\ child.returncode = 1
    /\ child.err = BOOM
    /\ child.out = HELLO
    /\ result.msg = BOOM

\* whether a value survives json.dumps followed by json.loads
json_stable(v) ==
    /\ json_dumps(v).ok
    /\ json_loads(json_dumps(v).val).ok
    /\ py_eq(json_loads(json_dumps(v).val).val, v)

\* C2 as amended: when the child exited 0 and its stdout decodes, run returns
\* exactly the decoding of everything the child wrote to stdout; with an
\* echoing child run(node, v) == v for every v other than None that survives
\* JSON encoding and decoding, and run(node, None) is the empty dict.
C2_ReturnsDecodedStdout ==
    (pc = "done" /\ child.st = "exited" /\ child.returncode = 0
         /\ json_loads(child.out).ok) =>
        /\ result.kind = "value"
        /\ result.val = json_loads(child.out).val
        /\ (child.echo /\ arg # None /\ json_stable(arg)) => py_eq(result.val, arg)
        /\ (child.echo /\ arg = None) => result.val = PyDict(<<>>)

\* an echoing child returned the caller's {"a": 1}
C2_Witness ==
    /\ pc = "done"
    /\ child.echo
    /\ arg = PyDict(<< <<PyA, Py1>> >>)
    /\ result.kind = "value"
    /\ result.val = arg

\* C2 as stated: with an echoing child, run(node, v) == v for every v
C2_EchoReturnsEveryInput ==
    (pc = "done" /\ child.st = "exited" /\ child.returncode = 0 /\ child.echo) =>
        /\ result.kind = "value"
        /\ py_eq(result.val, arg)

\* the protocol events of a run that reads stream c at its end
Protocol(c) ==
    << <<"open", "stdin">>, <<"open", "stdout">>, <<"open", "stderr">>,
       <<"write", "stdin">>, <<"eof", "stdin">>, <<"launch", "child">>,
       <<"wait", "child">>, <<"eof", "stdout">>, <<"eof", "stderr">>,
       <<"inspect", "child">>, <<"read", c>> >>

\* C3: the events of every run are a prefix of the protocol order; a child
\* exists only after end-of-input was signalled, and a stream is read only
\* after the child exited and end-of-output was signalled on both streams.
C3_ProtocolOrder ==
    /\ \E c \in {"stdout", "stderr"} : IsPrefix(events, Protocol(c))
    /\ child.st # "none" => (eof.stdin /\ Happened(<<"eof", "stdin">>))
    /\ \A c \in {"stdout", "stderr"} :
          Happened(<<"read", c>>) => (child.st = "exited" /\ eof.stdout /\ eof.stderr)

\* a run went through the whole protocol and read stdout
C3_Witness == pc = "done" /\ events = Protocol("stdout")

\* C4: when run has returned or raised, no stream is open, and every stream
\* that was opened has been released.
C4_ChannelsReleased ==
    pc = "done" =>
        \A c \in Chans :
            /\ chan[c] # "open"
            /\ Happened(<<"open", c>>) => chan[c] = "released"

\* run raised on output that does not decode, with all three streams released
C4_Witness ==
    /\ pc = "done"
    /\ result.kind = "error"
    /\ result.exc = "JSONDecodeError"
    /\ \A c \in Chans : chan[c] = "released"

\* the child has output left to write and its stdout pipe is full
ChildBlockedOnStdout ==
    /\ child.st = "running"
    /\ child.nout < Len(child.out)
    /\ Len(pipe.stdout) = PipeCap

\* C5: run is never awaiting the child's exit while the child is blocked
\* writing to a full stdout pipe (from there neither can take a step: stdout
\* is read only after the wait, and the wait ends only when the child exits).
C5_NoPipeDeadlock == ~(pc = "wait" /\ ChildBlockedOnStdout)

----------------------------------------------------------------------------
(* Properties of name resolution *)

AllPluginsUsable ==
    /\ \A i \in 1..Len(modules) : modules[i].status = "ok"
    /\ \A i \in 1..Len(entry_points) : entry_points[i].status = "ok"

C7_RaisesOnlyOnDiscoveryFailure ==
    resolved.done =>
        /\ resolved.out.ok <=> (Contains(resolved.name, ".") \/ AllPluginsUsable)
        /\ resolved.out.ok => resolved.out.exc = ""
        /\ ~resolved.out.ok => resolved.out = load(modules, entry_points)

\* an unqualified name was resolved with a plugin installed that fails to import
C7_Witness ==
    /\ resolved.done
    /\ ~Contains(resolved.name, ".")
    /\ \E i \in 1..Len(entry_points) : entry_points[i].status = "import_error"
    /\ resolved.out = Raised("ImportError")

\* C7 as stated: sanitize_node_name never raises
C7_NeverRaises == resolved.done => resolved.out.ok

\* C8: a name holding a "." is returned as it is, whatever is installed
C8_QualifiedUnchanged ==
    (resolved.done /\ Contains(resolved.name, ".")) =>
        resolved.out = Returned(resolved.name)

\* "j." came back unchanged although a plugin declares a node "j."
C8_Witness ==
    /\ resolved.done
    /\ resolved.name = <<"j", ".">>
    /\ entry_points = <<plugin_pl>>
    /\ resolved.out.val = <<"j", ".">>

\* C9: an unqualified name the registry maps to owner g resolves to
\* "gadalang_" + g + "." + name
C9_RegistryDriven ==
    (resolved.done /\ ~Contains(resolved.name, ".") /\ load(modules, entry_points).ok) =>
        \A n \in DOMAIN load(modules, entry_points).val :
            n = resolved.name =>
                resolved.out =
                    Returned(GADALANG_ \o load(modules, entry_points).val[n] \o <<".">> \o n)

\* "j" owned by "l" resolved to "gadalang_l.j"
C9_Witness ==
    /\ resolved.done
    /\ resolved.name = <<"j">>
    /\ modules = <<plugin_l>>
    /\ entry_points = <<>>
    /\ resolved.out.val = <<"g", "a", "d", "a", "l", "a", "n", "g", "_", "l", ".", "j">>

\* C10: an unqualified name that is no key of the registry is returned as it is
C10_UnknownPassthrough ==
    (resolved.done /\ ~Contains(resolved.name, ".") /\ load(modules, entry_points).ok
         /\ resolved.name \notin DOMAIN load(modules, entry_points).val) =>
        resolved.out = Returned(resolved.name)

\* "jj" came back unchanged from a registry that knows only "j"
C10_Witness ==
    /\ resolved.done
    /\ resolved.name = <<"j", "j">>
    /\ modules = <<plugin_l>>
    /\ DOMAIN load(modules, entry_points).val = {<<"j">>}
    /\ resolved.out = Returned(<<"j", "j">>)

----------------------------------------------------------------------------
(* Further properties of run *)

\* C11: when the child exited 0 and its stdout is not JSON, run raises the
\* decoder's error, which is not the Exception of a non-zero exit and carries
\* no stderr text; run returns no value.
C11_MalformedOutputRaises ==
    (pc = "done" /\ child.st = "exited" /\ child.returncode = 0
         /\ ~json_loads(child.out).ok) =>
        /\ result.kind = "error"
        /\ result.exc = "JSONDecodeError"
        /\ result.exc # "Exception"
        /\ result.msg = <<>>

\* a child wrote "{" to stdout and "boom" to stderr, exited 0, and run raised
C11_Witness ==
    /\ pc = "done"
    /\ child.st = "exited"
    /\ child.returncode = 0
    /\ child.out = <<LBRACE>>
    /\ child.err = BOOM
    /\ result.exc = "JSONDecodeError"

\* the positions of run past the launch
PastLaunch == {"wait", "eof_stdout", "eof_stderr", "inspect", "read_stderr", "read_stdout"}

\* C12: run is past the launch only with a child started; a launch that
\* failed ended run at once with an error, before any wait, end-of-output
\* signal or read, and with no value.
C12_LaunchFailureIsImmediate ==
    /\ pc \in PastLaunch => child.st # "none"
    /\ (spawns.tried = 1 /\ spawns.started = 0) =>
          /\ pc = "done"
          /\ result.kind = "error"
          /\ result.exc = "LaunchError"
          /\ child.st = "none"
          /\ events = SubSeq(Protocol("stdout"), 1, 5)
          /\ ~eof.stdout
          /\ ~eof.stderr

\* the unknown name "jj" went through resolution unchanged and did not launch
C12_Witness ==
    /\ pc = "done"
    /\ node = <<"j", "j">>
    /\ target = <<"j", "j">>
    /\ spawns = [tried |-> 1, started |-> 0]
    /\ result.exc = "LaunchError"

\* C13 as amended: a run tries the launch at most once and starts at most one
\* child: one when the launch succeeds, none when run fails before the launch
\* or at it; nothing is started after a failure.
C13_AtMostOneChild ==
    /\ spawns.tried <= 1
    /\ spawns.started <= spawns.tried
    /\ spawns.started = (IF child.st = "none" THEN 0 ELSE 1)
    /\ pc = "done" =>
          (spawns.started = 1 <=>
              (result.kind = "value" \/ result.exc \in {"Exception", "JSONDecodeError"}))

\* a run whose output did not decode ended with one launch and one child
C13_Witness ==
    /\ pc = "done"
    /\ result.exc = "JSONDecodeError"
    /\ spawns = [tried |-> 1, started |-> 1]

\* C13 as stated: every call of run starts exactly one child
C13_ExactlyOneChild == pc = "done" => spawns.started = 1

\* C19: the text written to the child's stdin is the JSON text of the
\* caller's data, and of {} only when the caller passed None.
C19_StdinIsCallersData ==
    Happened(<<"write", "stdin">>) =>
        /\ json_dumps(IF arg = None THEN PyDict(<<>>) ELSE arg).ok
        /\ child.got \o pipe.stdin
               = json_dumps(IF arg = None THEN PyDict(<<>>) ELSE arg).val

\* the child read "0" when the caller passed 0
C19_Witness ==
    /\ arg = Py0
    /\ child.eofseen
    /\ child.got = <<Tok("int", "0")>>

----------------------------------------------------------------------------
(* Properties of the registry *)

\* the installed plugins in discovery order: local sub-packages, then entry points
DiscoveryOrder == modules \o entry_points

\* g is what follows the last "." of s, or all of s when s holds no "."
IsLastSegment(g, s) ==
    /\ ~Contains(g, ".")
    /\ Len(g) <= Len(s)
    /\ SubSeq(s, Len(s) - Len(g) + 1, Len(s)) = g
    /\ Len(g) = Len(s) \/ s[Len(s) - Len(g)] = "."

\* whether the i-th plugin in discovery order declares node n
Declares(i, n) == \E k \in 1..Len(DiscoveryOrder[i].nodes) : DiscoveryOrder[i].nodes[k] = n

C15_DiscoveryFailurePropagates ==
    /\ (discovered.done /\ discovered.out.ok) =>
          Len(discovered.out.val) = Len(DiscoveryOrder)
    /\ (\E i \in 1..Len(DiscoveryOrder) : DiscoveryOrder[i].status = "import_error") =>
          /\ discovered.done => discovered.out = Raised("ImportError")
          /\ loaded.n > 0 => loaded.last = Raised("ImportError")

\* "b" cannot be imported: load_plugins() and load() both raised
C15_Witness ==
    /\ modules = <<plugin_l>>
    /\ entry_points = <<plugin_b>>
    /\ discovered.done
    /\ ~discovered.out.ok
    /\ loaded.n > 0
    /\ ~loaded.last.ok

\* C16: the keys of the mapping load() returns are the names the plugins
\* declare, and each maps to the group of the last plugin declaring it in
\* discovery order, local sub-packages coming before entry points.
C16_LastDeclarerOwns ==
    (loaded.n > 0 /\ loaded.last.ok) =>
        /\ DOMAIN loaded.last.val =
               UNION {{DiscoveryOrder[i].nodes[k] : k \in 1..Len(DiscoveryOrder[i].nodes)} :
                          i \in 1..Len(DiscoveryOrder)}
        /\ \A n \in DOMAIN loaded.last.val :
               \E i \in 1..Len(DiscoveryOrder) :
                   /\ Declares(i, n)
                   /\ \A j \in (i + 1)..Len(DiscoveryOrder) : ~Declares(j, n)
                   /\ IsLastSegment(loaded.last.val[n], DiscoveryOrder[i].name)

\* the entry point "l" took "j" from the local sub-package "m", which kept "jj"
C16_Witness ==
    /\ loaded.n > 0
    /\ modules = <<plugin_m>>
    /\ entry_points = <<plugin_l>>
    /\ loaded.last.ok
    /\ loaded.last.val[<<"j">>] = <<"l">>
    /\ loaded.last.val[<<"j", "j">>] = <<"m">>

\* C17: a step that resolves a name holding a "." runs no nodes.load(), looks
\* nothing up and leaves what is installed and what was built as it was.
C17_QualifiedSkipsRegistry ==
    [][(ncalls' = ncalls + 1 /\ resolved'.done /\ Contains(resolved'.name, ".")) =>
          /\ loads' = loads
          /\ lookups' = lookups
          /\ modules' = modules
          /\ entry_points' = entry_points
          /\ loaded' = loaded
          /\ discovered' = discovered]_vars

\* after one lookup, a second call resolved a qualified name without a build
C17_Witness ==
    /\ ncalls = 2
    /\ loads = 1
    /\ resolved.done
    /\ Contains(resolved.name, ".")
    /\ resolved.out = Returned(resolved.name)

\* C18: the group of every discovered plugin is what follows the last "." of
\* its name, and the name itself when it holds no "."; normalize returns a
\* name without "." unchanged, its result never holds a ".", and applying it
\* twice gives the same as applying it once.
C18_GroupIsLastSegment ==
    /\ (discovered.done /\ discovered.out.ok) =>
          /\ Len(discovered.out.val) = Len(DiscoveryOrder)
          /\ \A i \in 1..Len(discovered.out.val) :
                /\ IsLastSegment(discovered.out.val[i].group, DiscoveryOrder[i].name)
                /\ ~Contains(DiscoveryOrder[i].name, ".") =>
                      discovered.out.val[i].group = DiscoveryOrder[i].name
    /\ normalized.done =>
          /\ IsLastSegment(normalized.out, normalized.name)
          /\ ~Contains(normalized.name, ".") => normalized.out = normalized.name
          /\ ~Contains(normalized.out, ".")
          /\ normalized.twice = normalized.out

\* the sub-package "m" and the entry point "l" gave the groups "m" and "l", and
\* normalize returned "jj" unchanged
C18_Witness ==
    /\ discovered.done
    /\ modules = <<plugin_m>>
    /\ entry_points = <<plugin_l>>
    /\ discovered.out.val[1].group = <<"m">>
    /\ discovered.out.val[2].group = <<"l">>
    /\ normalized.done
    /\ normalized.name = <<"j", "j">>
    /\ normalized.out = <<"j", "j">>

\* C20: resolving the result of a resolution returns that result
C20_ResolutionIdempotent ==
    again.done =>
        /\ Returned(again.name) = sanitize_node_name(again.of, modules, entry_points)
        /\ again.out = Returned(again.name)

\* "j" resolved to "gadalang_l.j", which resolved to itself
C20_Witness ==
    /\ again.done
    /\ again.of = <<"j">>
    /\ again.name = <<"g", "a", "d", "a", "l", "a", "n", "g", "_", "l", ".", "j">>
    /\ again.out = Returned(again.name)

====
